---- MODULE Spec2Model ----
(***************************************************************************)
(* Extended<T>: the extended number line over an arithmetic type T         *)
(* (src/extended.h), instantiated at T = int16_t as in                     *)
(* test::multiply_divide and test::stream.  An Extended value is the pair  *)
(* (m_value, m_flag).  The machine holds a receiver `a` and a right-hand   *)
(* operand `b`; every public operation of the class is one action that     *)
(* applies the operation to `a` (with `b` as `other`), records the         *)
(* receiver as it was before the call in `pre`, the operation in `op` and  *)
(* what the call returned or threw in `res`.  `distr` holds the parameters *)
(* of the benchmark's random distribution, a function-local static the     *)
(* first call of random_numbers constructs.  `deferred` says that the      *)
(* receiver's payload is the remainder of a division by zero which the     *)
(* build has not carried out yet.  The benchmark (src/benchmark.cpp) runs  *)
(* the same operators at int64_t.                                          *)
(***************************************************************************)
EXTENDS Integers, Sequences, FiniteSets, TLC

VARIABLES a, b, pre, op, res, steps, distr, deferred

vars == <<a, b, pre, op, res, steps, distr, deferred>>

(***************************************************************************)
(* Bounds of the model.                                                    *)
(***************************************************************************)
\* Payloads drawn as inputs are -MaxIn..MaxIn and the ends of T's range.
MaxIn == 3
\* Number of operations applied in a row to the receiver.
MaxSteps == 2
\* Length of the vectors handed to the benchmark's operate().
MaxLen == 7

(***************************************************************************)
(* The underlying primitive type T = int16_t and its operators.  Operands  *)
(* narrower than int are promoted to int before every arithmetic or        *)
(* bitwise operator, and the result is converted back by static_cast<T>.   *)
(***************************************************************************)
\* Width of T in bits.
TBits == 16
\* Width of int, the type the operands are promoted to.
IntBits == 2 * TBits

TMin == -(2^(TBits - 1))
TMax == 2^(TBits - 1) - 1
T == TMin..TMax

\* static_cast<T>(n): conversion to the signed type keeps n modulo 2^TBits.
static_cast_T(n) == ((n - TMin) % (2^TBits)) + TMin

\* The two's-complement bit pattern of a T, as a number in 0..2^TBits-1.
ToUnsigned(n) == n % (2^TBits)

Abs(n) == IF n < 0 THEN -n ELSE n

\* The primitive / and % of C++: the quotient is truncated towards zero.
PrimDiv(x, y) ==
  IF (x < 0) = (y < 0) THEN Abs(x) \div Abs(y) ELSE -(Abs(x) \div Abs(y))
PrimMod(x, y) == x - y * PrimDiv(x, y)

\* One bit of each operand at a time, from the least significant.
RECURSIVE BitFold(_, _, _, _)
BitFold(f, x, y, n) ==
  IF n = 0 THEN 0
  ELSE f[x % 2][y % 2] + 2 * BitFold(f, x \div 2, y \div 2, n - 1)

\* x & y, x | y, x ^ y on the promoted operands.  Promotion extends the sign,
\* so the bits above TBits repeat bit TBits-1 of the result; what is computed
\* here is the low TBits bits, which is all that static_cast<T> keeps.
PrimAnd(x, y) ==
  BitFold([p \in 0..1 |-> [q \in 0..1 |-> IF p = 1 /\ q = 1 THEN 1 ELSE 0]],
          ToUnsigned(x), ToUnsigned(y), TBits)
PrimOr(x, y) ==
  BitFold([p \in 0..1 |-> [q \in 0..1 |-> IF p = 1 \/ q = 1 THEN 1 ELSE 0]],
          ToUnsigned(x), ToUnsigned(y), TBits)
PrimXor(x, y) ==
  BitFold([p \in 0..1 |-> [q \in 0..1 |-> IF p # q THEN 1 ELSE 0]],
          ToUnsigned(x), ToUnsigned(y), TBits)
\* ~x flips every bit of the promoted operand: -x - 1 in two's complement.
PrimNot(x) == -x - 1

\* A shift is defined only for a count in 0..IntBits-1.
ShiftDefined(c) == c >= 0 /\ c < IntBits
\* x << c is x * 2^c in int.  A T shifted by less than TBits fits in int; by
\* TBits or more the low TBits bits, all that static_cast<T> keeps, are zero.
PrimShl(x, c) == IF c < TBits THEN x * 2^c ELSE 0
\* x >> c is the arithmetic shift: the floor of x / 2^c, which for a T is
\* already -1 or 0 from TBits - 1 on.
PrimShr(x, c) ==
  IF c < TBits - 1 THEN x \div (2^c) ELSE IF x < 0 THEN -1 ELSE 0

(***************************************************************************)
(* Extended<T>: state and constants.                                       *)
(***************************************************************************)
FINITE_FLAG == 0
POS_INF_FLAG == 1
NEG_INF_FLAG == -1

Flags == {FINITE_FLAG, POS_INF_FLAG, NEG_INF_FLAG}

\* enum class INF : bool { POS = true, NEG = false }
INF_POS == TRUE
INF_NEG == FALSE

\* An instance: the two data members.
Ext(v, f) == [m_value |-> v, m_flag |-> f]

\* Payloads the inputs are drawn from.
Inputs == (-MaxIn..MaxIn) \cup {TMin, TMax}

\* Instances an operation can meet: any flag, and under an infinite flag any
\* payload (operator=(INF) and Finite += Inf keep the old payload).
ExtInputs == {Ext(v, f) : v \in Inputs, f \in Flags}

\* No exception left the call.
NoError == "none"

\* Messages of the infinite_error exceptions the class throws.
Msg ==
  [Value |-> "Finite error: This is infinite.",
   InfType |-> "Finite error: This is finite.",
   Internal |-> "Internal error: invalid infinite flag.",
   AddPN |-> "Indeterminate form: +inf + -inf",
   AddNP |-> "Indeterminate form: -inf + +inf",
   SubPP |-> "Indeterminate form: +inf - +inf",
   SubNN |-> "Indeterminate form: -inf - -inf",
   DivZero |-> "Indeterminate form: +inf / 0",
   DivPP |-> "+inf / +inf indeterminate form.",
   DivPN |-> "+inf / -inf indeterminate form.",
   DivNP |-> "-inf / +inf indeterminate form.",
   DivNN |-> "-inf / -inf indeterminate form.",
   Mod |-> "Finite error: modular arithmetic requires finite values.",
   Not |-> "Finite error: bitwise not requires finite values.",
   And |-> "Finite error: bitwise and requires finite values.",
   Or |-> "Finite error: bitwise or requires finite values.",
   Xor |-> "Finite error: bitwise xor requires finite values.",
   Shl |-> "Finite error: bitwise leftshift requires finite values.",
   Shr |-> "Finite error: bitwise rightshift requires finite values."]

\* Outcome of a member function on `this`: the exception thrown (or NoError),
\* whether the call ran into undefined behaviour of the primitive operator,
\* and the instance after the call.
Ok(this) == [err |-> NoError, ub |-> FALSE, trap |-> FALSE, self |-> this]
Throw(msg, this) == [err |-> msg, ub |-> FALSE, trap |-> FALSE, self |-> this]
Undefined(this) == [err |-> NoError, ub |-> TRUE, trap |-> FALSE, self |-> this]
\* Undefined behaviour that the build may turn into a signal: the integer
\* division by zero raises SIGFPE and the process ends inside the call,
\* unless the compiler has removed the division, and then the call returns.
Trap(this) == [err |-> NoError, ub |-> TRUE, trap |-> TRUE, self |-> this]

(***************************************************************************)
(* Construction and assignment.                                            *)
(***************************************************************************)
Extended_default == Ext(static_cast_T(0), FINITE_FLAG)

Extended_value(number) == Ext(number, FINITE_FLAG)

Extended_inf(inf_type) ==
  Ext(static_cast_T(0), IF inf_type = INF_POS THEN POS_INF_FLAG ELSE NEG_INF_FLAG)

\* The implicitly declared copy constructor and copy assignment.
Extended_copy(other) == Ext(other.m_value, other.m_flag)

assign_copy(this, other) ==
  [this EXCEPT !.m_value = other.m_value, !.m_flag = other.m_flag]

assign_value(this, number) ==
  [this EXCEPT !.m_value = number, !.m_flag = FINITE_FLAG]

assign_inf(this, inf_type) ==
  [this EXCEPT !.m_flag = IF inf_type = INF_POS THEN POS_INF_FLAG ELSE NEG_INF_FLAG]

(***************************************************************************)
(* Basic functionality.                                                    *)
(***************************************************************************)
finite(this) == this.m_flag = FINITE_FLAG

\* inf_assert(pred, msg) throws infinite_error(msg) unless pred holds.
inf_assert(pred, msg) == IF pred THEN NoError ELSE msg

\* A variant of value() with one slip: the payload is handed out without
\* the test that this is finite.
value_unchecked(this) == [err |-> NoError, ret |-> this.m_value]

value(this) ==
  [err |-> inf_assert(finite(this), Msg.Value), ret |-> this.m_value]

infinite_type(this) ==
  [err |-> inf_assert(~finite(this), Msg.InfType),
   ret |-> IF this.m_flag = POS_INF_FLAG THEN INF_POS ELSE INF_NEG]

(***************************************************************************)
(* as_type<S>: S is an integer type, given by its width and signedness.    *)
(* static_cast<S> keeps a value that S can hold and otherwise reduces it   *)
(* modulo 2^bits; a signed S at least as wide as int holds every value     *)
(* that reaches the cast here.                                             *)
(***************************************************************************)
int8_t == [bits |-> TBits \div 2, signed |-> TRUE]
uint8_t == [bits |-> TBits \div 2, signed |-> FALSE]
int16_t == [bits |-> TBits, signed |-> TRUE]
uint16_t == [bits |-> TBits, signed |-> FALSE]
int64_t == [bits |-> 2 * IntBits, signed |-> TRUE]

STypes == {int8_t, uint8_t, int16_t, uint16_t, int64_t}

static_cast_S(n, S) ==
  IF S.signed
  THEN IF S.bits >= IntBits THEN n
       ELSE ((n + 2^(S.bits - 1)) % (2^S.bits)) - 2^(S.bits - 1)
  ELSE n % (2^S.bits)

\* A variant of as_type with one slip: POS and NEG change places in the
\* infinite branch.
as_type_swapped(this, S) ==
  IF finite(this) THEN Extended_value(static_cast_S(this.m_value, S))
  ELSE Extended_inf(IF this.m_flag = POS_INF_FLAG THEN INF_NEG ELSE INF_POS)

as_type(this, S) ==
  IF finite(this) THEN Extended_value(static_cast_S(this.m_value, S))
  ELSE Extended_inf(IF this.m_flag = POS_INF_FLAG THEN INF_POS ELSE INF_NEG)

(***************************************************************************)
(* Comparison.                                                             *)
(***************************************************************************)
op_eq(num_1, num_2) ==
  IF finite(num_1) /\ finite(num_2) THEN num_1.m_value = num_2.m_value
  ELSE num_1.m_flag = num_2.m_flag

op_ne(num_1, num_2) == ~op_eq(num_1, num_2)

\* A variant of operator< with one slip: || for && in the last return.
op_lt_either(num_1, num_2) ==
  IF finite(num_1) /\ finite(num_2) THEN num_1.m_value < num_2.m_value
  ELSE IF finite(num_1) THEN num_2.m_flag = POS_INF_FLAG
  ELSE IF finite(num_2) THEN num_1.m_flag = NEG_INF_FLAG
  ELSE num_1.m_flag = NEG_INF_FLAG \/ num_2.m_flag = POS_INF_FLAG

op_lt(num_1, num_2) ==
  IF finite(num_1) /\ finite(num_2) THEN num_1.m_value < num_2.m_value
  ELSE IF finite(num_1) THEN num_2.m_flag = POS_INF_FLAG
  ELSE IF finite(num_2) THEN num_1.m_flag = NEG_INF_FLAG
  ELSE num_1.m_flag = NEG_INF_FLAG /\ num_2.m_flag = POS_INF_FLAG

op_gt(num_1, num_2) == op_lt(num_2, num_1)

op_le(num_1, num_2) == ~op_lt(num_2, num_1)

op_ge(num_1, num_2) == ~op_lt(num_1, num_2)

(***************************************************************************)
(* Unary + and -, and the conversion to bool.  operator- starts from a     *)
(* default-constructed value and sets one of its two members.              *)
(***************************************************************************)
unary_plus(this) == this

\* A variant of operator- with one slip: the flag is copied, not negated.
unary_minus_keeps_flag(this) ==
  IF finite(this)
  THEN [Extended_default EXCEPT !.m_value = static_cast_T(-this.m_value)]
  ELSE [Extended_default EXCEPT !.m_flag = this.m_flag]

\* A variant of operator- with one slip: ~m_flag for -m_flag.
unary_minus_bitnot(this) ==
  IF finite(this)
  THEN [Extended_default EXCEPT !.m_value = static_cast_T(-this.m_value)]
  ELSE [Extended_default EXCEPT !.m_flag = -this.m_flag - 1]

unary_minus(this) ==
  IF finite(this)
  THEN [Extended_default EXCEPT !.m_value = static_cast_T(-this.m_value)]
  ELSE [Extended_default EXCEPT !.m_flag = -this.m_flag]

to_bool(this) == IF ~finite(this) THEN TRUE ELSE this.m_value # static_cast_T(0)

(***************************************************************************)
(* Increment and decrement: the payload moves, the flag is not touched.    *)
(* ret is the value the expression yields: the receiver itself for the    *)
(* prefix forms, the copy taken before the change for the postfix forms.   *)
(***************************************************************************)
pre_increment(this) ==
  LET now == [this EXCEPT !.m_value = static_cast_T(this.m_value + 1)]
  IN  [self |-> now, ret |-> now]

\* A variant of operator++(int) with one slip: the copy is taken after the
\* increment.
post_increment_late(this) ==
  LET now == [this EXCEPT !.m_value = static_cast_T(this.m_value + 1)]
  IN  [self |-> now, ret |-> now]

post_increment(this) ==
  LET tmp == this
  IN  [self |-> [this EXCEPT !.m_value = static_cast_T(this.m_value + 1)],
       ret |-> tmp]

pre_decrement(this) ==
  LET now == [this EXCEPT !.m_value = static_cast_T(this.m_value - 1)]
  IN  [self |-> now, ret |-> now]

post_decrement(this) ==
  LET tmp == this
  IN  [self |-> [this EXCEPT !.m_value = static_cast_T(this.m_value - 1)],
       ret |-> tmp]

(***************************************************************************)
(* The operators of a payload type S.  A type no wider than int is         *)
(* promoted to int, and the result is converted back to S.  int64_t, the   *)
(* type of the benchmark, is not promoted; its values go beyond the        *)
(* integers at hand here, so a value of a type wider than int is held as   *)
(* its two's-complement pattern: Limbs digits in base Limb, the least      *)
(* significant first.  (The casts of as_type stay within int and are kept  *)
(* as numbers.)  Signed overflow of int64_t is undefined; the builds       *)
(* compute + and * with the processor's add and imul, which keep the low   *)
(* 64 bits, and that is what AddLimbs and MulLimbs give.                   *)
(***************************************************************************)
Wide(S) == S.bits > IntBits

Limb == 2^(TBits \div 2)
Limbs == int64_t.bits \div (TBits \div 2)

\* The low k digits of the two's-complement pattern of n.
RECURSIVE ToLimbs(_, _)
ToLimbs(n, k) ==
  IF k = 0 THEN <<>> ELSE <<n % Limb>> \o ToLimbs(n \div Limb, k - 1)

\* x + y from digit k on, with carry c.
RECURSIVE AddLimbs(_, _, _, _)
AddLimbs(x, y, k, c) ==
  IF k > Limbs THEN <<>>
  ELSE LET s == x[k] + y[k] + c
       IN  <<s % Limb>> \o AddLimbs(x, y, k + 1, s \div Limb)

\* The sum of the digit products x[i] * y[j] that fall on digit k.
RECURSIVE Column(_, _, _, _)
Column(x, y, k, i) ==
  IF i > k THEN 0 ELSE x[i] * y[k + 1 - i] + Column(x, y, k, i + 1)

\* x * y from digit k on, with carry c.
RECURSIVE MulLimbs(_, _, _, _)
MulLimbs(x, y, k, c) ==
  IF k > Limbs THEN <<>>
  ELSE LET s == c + Column(x, y, k, 1)
       IN  <<s % Limb>> \o MulLimbs(x, y, k + 1, s \div Limb)

\* S(n), the value of type S for a number n.
Number(S, n) == IF Wide(S) THEN ToLimbs(n, Limbs) ELSE static_cast_S(n, S)

\* x < 0 and x > 0 for a value x of type S.
Negative(S, x) == IF Wide(S) THEN x[Limbs] >= Limb \div 2 ELSE x < 0
Positive(S, x) == ~Negative(S, x) /\ x # Number(S, 0)

\* S + S and S * S.
PrimPlus(S, x, y) ==
  IF Wide(S) THEN AddLimbs(x, y, 1, 0) ELSE static_cast_S(x + y, S)
PrimTimes(S, x, y) ==
  IF Wide(S) THEN MulLimbs(x, y, 1, 0) ELSE static_cast_S(x * y, S)

(***************************************************************************)
(* Arithmetic: the compound assignments, one switch on the two flags each. *)
(* += and *=, which the benchmark runs at int64_t, are written for any     *)
(* payload type S; the others are written for T = int16_t.                 *)
(***************************************************************************)
zero == static_cast_T(0)

\* Variants of += with one slip each.
\* -inf += +inf passes silently instead of throwing.
plus_assign_silent(this, other) ==
  IF finite(this) /\ finite(other)
    THEN Ok([this EXCEPT !.m_value = static_cast_T(this.m_value + other.m_value)])
  ELSE IF finite(this) THEN Ok([this EXCEPT !.m_flag = other.m_flag])
  ELSE IF this.m_flag = POS_INF_FLAG /\ other.m_flag = NEG_INF_FLAG
    THEN Throw(Msg.AddPN, this)
  ELSE Ok(this)

\* Finite += Inf takes the opposite of the operand's flag, as -= does.
plus_assign_negates(this, other) ==
  IF finite(this) /\ finite(other)
    THEN Ok([this EXCEPT !.m_value = static_cast_T(this.m_value + other.m_value)])
  ELSE IF finite(this) THEN Ok([this EXCEPT !.m_flag = -other.m_flag])
  ELSE IF this.m_flag = POS_INF_FLAG /\ other.m_flag = NEG_INF_FLAG
    THEN Throw(Msg.AddPN, this)
  ELSE IF this.m_flag = NEG_INF_FLAG /\ other.m_flag = POS_INF_FLAG
    THEN Throw(Msg.AddNP, this)
  ELSE Ok(this)

plus_assign_S(S, this, other) ==
  CASE this.m_flag = FINITE_FLAG ->
         ( CASE other.m_flag = FINITE_FLAG ->
                  Ok([this EXCEPT !.m_value =
                        PrimPlus(S, this.m_value, other.m_value)])
             [] other.m_flag \in {POS_INF_FLAG, NEG_INF_FLAG} ->
                  Ok([this EXCEPT !.m_flag = other.m_flag])
             [] OTHER -> Throw(Msg.Internal, this) )
    [] this.m_flag = POS_INF_FLAG ->
         ( CASE other.m_flag \in {FINITE_FLAG, POS_INF_FLAG} -> Ok(this)
             [] other.m_flag = NEG_INF_FLAG -> Throw(Msg.AddPN, this)
             [] OTHER -> Throw(Msg.Internal, this) )
    [] this.m_flag = NEG_INF_FLAG ->
         ( CASE other.m_flag = POS_INF_FLAG -> Throw(Msg.AddNP, this)
             [] other.m_flag \in {FINITE_FLAG, NEG_INF_FLAG} -> Ok(this)
             [] OTHER -> Throw(Msg.Internal, this) )
    [] OTHER -> Throw(Msg.Internal, this)

plus_assign(this, other) == plus_assign_S(int16_t, this, other)

\* A variant of -= with one slip: Finite -= Inf takes the operand's flag
\* without negating it, as += does.
minus_assign_keeps(this, other) ==
  IF finite(this) /\ finite(other)
    THEN Ok([this EXCEPT !.m_value = static_cast_T(this.m_value - other.m_value)])
  ELSE IF finite(this) THEN Ok([this EXCEPT !.m_flag = other.m_flag])
  ELSE IF this.m_flag = POS_INF_FLAG /\ other.m_flag = POS_INF_FLAG
    THEN Throw(Msg.SubPP, this)
  ELSE IF this.m_flag = NEG_INF_FLAG /\ other.m_flag = NEG_INF_FLAG
    THEN Throw(Msg.SubNN, this)
  ELSE Ok(this)

minus_assign(this, other) ==
  CASE this.m_flag = FINITE_FLAG ->
         ( CASE other.m_flag = FINITE_FLAG ->
                  Ok([this EXCEPT !.m_value =
                        static_cast_T(this.m_value - other.m_value)])
             [] other.m_flag \in {POS_INF_FLAG, NEG_INF_FLAG} ->
                  Ok([this EXCEPT !.m_flag = -other.m_flag])
             [] OTHER -> Throw(Msg.Internal, this) )
    [] this.m_flag = POS_INF_FLAG ->
         ( CASE other.m_flag \in {FINITE_FLAG, NEG_INF_FLAG} -> Ok(this)
             [] other.m_flag = POS_INF_FLAG -> Throw(Msg.SubPP, this)
             [] OTHER -> Throw(Msg.Internal, this) )
    [] this.m_flag = NEG_INF_FLAG ->
         ( CASE other.m_flag \in {FINITE_FLAG, POS_INF_FLAG} -> Ok(this)
             [] other.m_flag = NEG_INF_FLAG -> Throw(Msg.SubNN, this)
             [] OTHER -> Throw(Msg.Internal, this) )
    [] OTHER -> Throw(Msg.Internal, this)

\* Variants of *= with one slip each.
\* -inf *= Inf copies the operand's flag without negating it, as +inf does.
times_assign_copies(this, other) ==
  IF finite(this) /\ finite(other)
    THEN Ok([this EXCEPT !.m_value = static_cast_T(this.m_value * other.m_value)])
  ELSE IF finite(this)
    THEN IF this.m_value < zero THEN Ok([this EXCEPT !.m_flag = -other.m_flag])
         ELSE IF this.m_value > zero THEN Ok([this EXCEPT !.m_flag = other.m_flag])
         ELSE Ok(this)
  ELSE IF finite(other)
    THEN IF other.m_value = zero
           THEN Ok([this EXCEPT !.m_value = 0, !.m_flag = FINITE_FLAG])
         ELSE IF other.m_value < zero THEN Ok([this EXCEPT !.m_flag = -this.m_flag])
         ELSE Ok(this)
  ELSE Ok([this EXCEPT !.m_flag = other.m_flag])

\* A variant of *= with one slip: the Finite branch is the one of +=, with
\* the operator left as it was there.
times_assign_S_adds(S, this, other) ==
  IF finite(this) /\ finite(other)
    THEN Ok([this EXCEPT !.m_value = PrimPlus(S, this.m_value, other.m_value)])
  ELSE IF finite(this)
    THEN IF Negative(S, this.m_value)
           THEN Ok([this EXCEPT !.m_flag = -other.m_flag])
         ELSE IF Positive(S, this.m_value)
           THEN Ok([this EXCEPT !.m_flag = other.m_flag])
         ELSE Ok(this)
  ELSE IF finite(other)
    THEN IF other.m_value = Number(S, 0)
           THEN Ok([this EXCEPT !.m_value = Number(S, 0), !.m_flag = FINITE_FLAG])
         ELSE IF Negative(S, other.m_value)
           THEN Ok([this EXCEPT !.m_flag = -this.m_flag])
         ELSE Ok(this)
  ELSE Ok([this EXCEPT !.m_flag = this.m_flag * other.m_flag])

\* zero, here Number(S, 0), is static_cast<T>(0).
times_assign_S(S, this, other) ==
  CASE this.m_flag = FINITE_FLAG ->
         ( CASE other.m_flag = FINITE_FLAG ->
                  Ok([this EXCEPT !.m_value =
                        PrimTimes(S, this.m_value, other.m_value)])
             [] other.m_flag \in {POS_INF_FLAG, NEG_INF_FLAG} ->
                  IF Negative(S, this.m_value)
                    THEN Ok([this EXCEPT !.m_flag = -other.m_flag])
                  ELSE IF Positive(S, this.m_value)
                    THEN Ok([this EXCEPT !.m_flag = other.m_flag])
                  ELSE Ok(this)
             [] OTHER -> Throw(Msg.Internal, this) )
    [] this.m_flag = POS_INF_FLAG ->
         ( CASE other.m_flag = FINITE_FLAG ->
                  IF other.m_value = Number(S, 0)
                    THEN Ok([this EXCEPT !.m_value = Number(S, 0),
                                         !.m_flag = FINITE_FLAG])
                  ELSE IF Negative(S, other.m_value)
                    THEN Ok([this EXCEPT !.m_flag = NEG_INF_FLAG])
                  ELSE Ok(this)
             [] other.m_flag \in {POS_INF_FLAG, NEG_INF_FLAG} ->
                  Ok([this EXCEPT !.m_flag = other.m_flag])
             [] OTHER -> Throw(Msg.Internal, this) )
    [] this.m_flag = NEG_INF_FLAG ->
         ( CASE other.m_flag = FINITE_FLAG ->
                  IF other.m_value = Number(S, 0)
                    THEN Ok([this EXCEPT !.m_value = Number(S, 0),
                                         !.m_flag = FINITE_FLAG])
                  ELSE IF Negative(S, other.m_value)
                    THEN Ok([this EXCEPT !.m_flag = POS_INF_FLAG])
                  ELSE Ok(this)
             [] other.m_flag \in {POS_INF_FLAG, NEG_INF_FLAG} ->
                  Ok([this EXCEPT !.m_flag = -other.m_flag])
             [] OTHER -> Throw(Msg.Internal, this) )
    [] OTHER -> Throw(Msg.Internal, this)

times_assign(this, other) == times_assign_S(int16_t, this, other)

\* A variant of /= with one slip: Finite / Inf leaves the payload as it is
\* instead of setting it to zero.
divide_assign_keeps(this, other) ==
  IF finite(other) /\ other.m_value = zero THEN Throw(Msg.DivZero, this)
  ELSE IF finite(this) /\ finite(other)
    THEN Ok([this EXCEPT !.m_value =
               static_cast_T(PrimDiv(this.m_value, other.m_value))])
  ELSE IF finite(this) THEN Ok(this)
  ELSE IF finite(other)
    THEN IF other.m_value < zero THEN Ok([this EXCEPT !.m_flag = -this.m_flag])
         ELSE Ok(this)
  ELSE IF this.m_flag = POS_INF_FLAG
    THEN Throw(IF other.m_flag = POS_INF_FLAG THEN Msg.DivPP ELSE Msg.DivPN, this)
  ELSE Throw(IF other.m_flag = POS_INF_FLAG THEN Msg.DivNP ELSE Msg.DivNN, this)

divide_assign(this, other) ==
  CASE this.m_flag = FINITE_FLAG ->
         ( CASE other.m_flag = FINITE_FLAG ->
                  IF inf_assert(other.m_value # zero, Msg.DivZero) # NoError
                    THEN Throw(Msg.DivZero, this)
                  ELSE Ok([this EXCEPT !.m_value =
                             static_cast_T(PrimDiv(this.m_value, other.m_value))])
             [] other.m_flag \in {POS_INF_FLAG, NEG_INF_FLAG} ->
                  Ok([this EXCEPT !.m_value = zero])
             [] OTHER -> Throw(Msg.Internal, this) )
    [] this.m_flag = POS_INF_FLAG ->
         ( CASE other.m_flag = FINITE_FLAG ->
                  IF inf_assert(other.m_value # zero, Msg.DivZero) # NoError
                    THEN Throw(Msg.DivZero, this)
                  ELSE IF other.m_value < zero
                    THEN Ok([this EXCEPT !.m_flag = NEG_INF_FLAG])
                  ELSE Ok(this)
             [] other.m_flag = POS_INF_FLAG -> Throw(Msg.DivPP, this)
             [] other.m_flag = NEG_INF_FLAG -> Throw(Msg.DivPN, this)
             [] OTHER -> Throw(Msg.Internal, this) )
    [] this.m_flag = NEG_INF_FLAG ->
         ( CASE other.m_flag = FINITE_FLAG ->
                  IF inf_assert(other.m_value # zero, Msg.DivZero) # NoError
                    THEN Throw(Msg.DivZero, this)
                  ELSE IF other.m_value < zero
                    THEN Ok([this EXCEPT !.m_flag = POS_INF_FLAG])
                  ELSE Ok(this)
             [] other.m_flag = POS_INF_FLAG -> Throw(Msg.DivNP, this)
             [] other.m_flag = NEG_INF_FLAG -> Throw(Msg.DivNN, this)
             [] OTHER -> Throw(Msg.Internal, this) )
    [] OTHER -> Throw(Msg.Internal, this)

\* The remainder is taken without a test of the divisor: a zero divisor is
\* undefined behaviour of the primitive %: the division traps or, where the
\* build has dropped it, the call returns.
modulo_assign(this, other) ==
  IF inf_assert(finite(this) /\ finite(other), Msg.Mod) # NoError
    THEN Throw(Msg.Mod, this)
  ELSE IF other.m_value = 0 THEN Trap(this)
  ELSE Ok([this EXCEPT !.m_value =
             static_cast_T(PrimMod(this.m_value, other.m_value))])

(***************************************************************************)
(* Bitwise.                                                                *)
(***************************************************************************)
bit_not(this) ==
  IF inf_assert(finite(this), Msg.Not) # NoError
    THEN Throw(Msg.Not, this)
  ELSE Ok(Extended_value(static_cast_T(PrimNot(this.m_value))))

\* A variant of operator&= with one slip: the payload is combined before
\* the assertion is made.
and_assign_early(this, other) ==
  LET now == [this EXCEPT !.m_value =
                 static_cast_T(PrimAnd(this.m_value, other.m_value))]
  IN  IF inf_assert(finite(this) /\ finite(other), Msg.And) # NoError
        THEN Throw(Msg.And, now)
      ELSE Ok(now)

and_assign(this, other) ==
  IF inf_assert(finite(this) /\ finite(other), Msg.And) # NoError
    THEN Throw(Msg.And, this)
  ELSE Ok([this EXCEPT !.m_value =
             static_cast_T(PrimAnd(this.m_value, other.m_value))])

or_assign(this, other) ==
  IF inf_assert(finite(this) /\ finite(other), Msg.Or) # NoError
    THEN Throw(Msg.Or, this)
  ELSE Ok([this EXCEPT !.m_value =
             static_cast_T(PrimOr(this.m_value, other.m_value))])

xor_assign(this, other) ==
  IF inf_assert(finite(this) /\ finite(other), Msg.Xor) # NoError
    THEN Throw(Msg.Xor, this)
  ELSE Ok([this EXCEPT !.m_value =
             static_cast_T(PrimXor(this.m_value, other.m_value))])

\* A shift by a negative count or by IntBits or more is undefined behaviour.
\* The processor takes the count modulo IntBits (its low five bits), so the
\* builds leave the shift by that count.
shl_assign(this, other) ==
  IF inf_assert(finite(this) /\ finite(other), Msg.Shl) # NoError
    THEN Throw(Msg.Shl, this)
  ELSE IF ~ShiftDefined(other.m_value)
    THEN Undefined([this EXCEPT !.m_value =
           static_cast_T(PrimShl(this.m_value, other.m_value % IntBits))])
  ELSE Ok([this EXCEPT !.m_value =
             static_cast_T(PrimShl(this.m_value, other.m_value))])

shr_assign(this, other) ==
  IF inf_assert(finite(this) /\ finite(other), Msg.Shr) # NoError
    THEN Throw(Msg.Shr, this)
  ELSE IF ~ShiftDefined(other.m_value)
    THEN Undefined([this EXCEPT !.m_value =
           static_cast_T(PrimShr(this.m_value, other.m_value % IntBits))])
  ELSE Ok([this EXCEPT !.m_value =
             static_cast_T(PrimShr(this.m_value, other.m_value))])

(***************************************************************************)
(* Streams: operator<< renders the payload in decimal, or +inf / -inf.     *)
(***************************************************************************)
DigitChar == <<"0", "1", "2", "3", "4", "5", "6", "7", "8", "9">>

RECURSIVE Digits(_)
Digits(n) ==
  IF n < 10 THEN DigitChar[n + 1]
  ELSE Digits(n \div 10) \o DigitChar[(n % 10) + 1]

\* os << m_value for the integer type T.
PrimToText(n) == IF n < 0 THEN "-" \o Digits(-n) ELSE Digits(n)

\* A variant of operator<< with one slip: the infinite branch tests for
\* NEG_INF_FLAG and keeps the order of the two texts.
stream_insert_crossed(ext) ==
  IF finite(ext) THEN PrimToText(ext.m_value)
  ELSE IF ext.m_flag = NEG_INF_FLAG THEN "+inf" ELSE "-inf"

stream_insert(ext) ==
  IF finite(ext) THEN PrimToText(ext.m_value)
  ELSE IF ext.m_flag = POS_INF_FLAG THEN "+inf" ELSE "-inf"

(***************************************************************************)
(* operator>> clears the flag and hands m_value to is >> T.  The formatted *)
(* extraction of a short first builds a sentry, which skips white space    *)
(* and fails when nothing is left: the target is then not written.  With   *)
(* the sentry built, num_get reads an optional sign and the digits that    *)
(* follow; no digit stores 0 and sets failbit, a number outside T stores   *)
(* the nearest bound of T and sets failbit.                                *)
(***************************************************************************)
IsDigit(c) == \E i \in 1..Len(DigitChar) : DigitChar[i] = c

DigitValue(c) == (CHOOSE i \in 1..Len(DigitChar) : DigitChar[i] = c) - 1

\* The sentry skips what std::isspace holds to be white space in the "C"
\* locale: space, \t, \n, \f, \r and the vertical tab (character 11).
RECURSIVE SkipSpace(_)
SkipSpace(s) ==
  IF s # "" /\ Head(s) \in {" ", "\t", "\n", "\f", "\r", ""}
  THEN SkipSpace(Tail(s))
  ELSE s

\* The digits at the front of s, accumulated onto acc; the magnitude stops
\* growing one past the largest magnitude T holds.
RECURSIVE ReadDigits(_, _, _)
ReadDigits(s, acc, any) ==
  IF s = "" \/ ~IsDigit(Head(s)) THEN [any |-> any, mag |-> acc]
  ELSE LET next == acc * 10 + DigitValue(Head(s))
       IN  ReadDigits(Tail(s), IF next > -TMin THEN -TMin + 1 ELSE next, TRUE)

\* is >> m_value on a stream holding s: ret is the T stored, written says
\* whether anything was stored, fail is the stream's failbit afterwards.
PrimFromText(s) ==
  LET rest == SkipSpace(s)
      signed == rest # "" /\ Head(rest) \in {"+", "-"}
      negative == rest # "" /\ Head(rest) = "-"
      read == ReadDigits(IF signed THEN Tail(rest) ELSE rest, 0, FALSE)
      number == IF negative THEN -read.mag ELSE read.mag
  IN  IF rest = "" THEN [written |-> FALSE, ret |-> 0, fail |-> TRUE]
      ELSE IF ~read.any THEN [written |-> TRUE, ret |-> 0, fail |-> TRUE]
      ELSE IF number > TMax THEN [written |-> TRUE, ret |-> TMax, fail |-> TRUE]
      ELSE IF number < TMin THEN [written |-> TRUE, ret |-> TMin, fail |-> TRUE]
      ELSE [written |-> TRUE, ret |-> number, fail |-> FALSE]

stream_extract(ext, s) ==
  LET got == PrimFromText(s)
  IN  [self |-> Ext(IF got.written THEN got.ret ELSE ext.m_value, FINITE_FLAG),
       fail |-> got.fail]

\* What the streams of the model hold: the rendering of every input, and
\* texts that take each path of the extraction.
Texts ==
  {PrimToText(v) : v \in Inputs} \cup
  {"", " \t", "\n 2", "+1", "-", "+inf", "-inf", "2x", "007", "32768",
   "-32769"}

(***************************************************************************)
(* Symmetric arithmetic and bitwise: lhs is a copy, the compound           *)
(* assignment is applied to the copy, and the copy is returned.            *)
(***************************************************************************)
binary_plus(lhs, rhs) == plus_assign(lhs, rhs)
binary_minus(lhs, rhs) == minus_assign(lhs, rhs)
binary_times(lhs, rhs) == times_assign(lhs, rhs)
binary_divide(lhs, rhs) == divide_assign(lhs, rhs)
binary_modulo(lhs, rhs) == modulo_assign(lhs, rhs)
binary_and(lhs, rhs) == and_assign(lhs, rhs)
binary_or(lhs, rhs) == or_assign(lhs, rhs)
binary_xor(lhs, rhs) == xor_assign(lhs, rhs)
binary_shl(lhs, rhs) == shl_assign(lhs, rhs)
binary_shr(lhs, rhs) == shr_assign(lhs, rhs)

(***************************************************************************)
(* The benchmark's sanity check (benchmark.cpp): the same vector is summed *)
(* and multiplied once as primitives and once as Extended values, each at  *)
(* the payload type S; main runs it at S = int64_t on numbers drawn from   *)
(* min_val..max_val.                                                       *)
(***************************************************************************)
\* The arguments main passes to random_numbers.
min_val == -1000
max_val == 1000

\* The numbers of the distribution's range that the vectors here are made
\* of: its two ends, of which MaxLen multiply to more than int64_t holds,
\* and zero.
Sample == {min_val, 0, max_val}

\* operator+ and operator* at S: lhs is a copy, the compound assignment is
\* applied to the copy, and the copy is returned.
binary_plus_S(S, lhs, rhs) == plus_assign_S(S, lhs, rhs)
binary_times_S(S, lhs, rhs) == times_assign_S(S, lhs, rhs)

extend(original) == [i \in 1..Len(original) |-> Extended_value(original[i])]

\* std::accumulate over primitives, with + and with the product lambda.
RECURSIVE accumulate_plus(_, _, _)
accumulate_plus(S, numbers, init) ==
  IF numbers = <<>> THEN init
  ELSE accumulate_plus(S, Tail(numbers), PrimPlus(S, init, Head(numbers)))

RECURSIVE accumulate_times(_, _, _)
accumulate_times(S, numbers, init) ==
  IF numbers = <<>> THEN init
  ELSE accumulate_times(S, Tail(numbers), PrimTimes(S, init, Head(numbers)))

\* std::accumulate over Extended values; an exception of the operator ends it.
RECURSIVE accumulate_ext_plus(_, _, _)
accumulate_ext_plus(S, numbers, init) ==
  IF numbers = <<>> THEN Ok(init)
  ELSE LET r == binary_plus_S(S, init, Head(numbers))
       IN  IF r.err # NoError THEN r
           ELSE accumulate_ext_plus(S, Tail(numbers), r.self)

RECURSIVE accumulate_ext_times(_, _, _)
accumulate_ext_times(S, numbers, init) ==
  IF numbers = <<>> THEN Ok(init)
  ELSE LET r == binary_times_S(S, init, Head(numbers))
       IN  IF r.err # NoError THEN r
           ELSE accumulate_ext_times(S, Tail(numbers), r.self)

\* operate<S>: the pair (sum, product) of the primitives.
operate_prim(S, numbers) ==
  [first |-> accumulate_plus(S, numbers, Number(S, 0)),
   second |-> accumulate_times(S, numbers, Number(S, 1))]

\* operate<Extended<S>>: the pair (sum, product) of the Extended values.
operate_ext(S, numbers) ==
  LET sum == accumulate_ext_plus(S, numbers, Extended_value(Number(S, 0)))
      prod == accumulate_ext_times(S, numbers, Extended_value(Number(S, 1)))
  IN  [err |-> IF sum.err # NoError THEN sum.err ELSE prod.err,
       first |-> sum.self, second |-> prod.self]

\* No distribution has been constructed yet.
NoDistr == <<>>

\* random_numbers(sz, min_val, max_val) with the static distribution in state
\* d, its two parameters: the first call constructs it from lo and hi, a
\* later call draws from the distribution of the first whatever it passes.
\* A distribution constructed with lo above hi (its precondition is lo <= hi)
\* gives the numbers from lo up and from hi down.  vectors are the vectors
\* the call may return, as numbers; distr is the state it leaves.
random_numbers(d, sz, lo, hi) ==
  LET param == IF d = NoDistr THEN <<lo, hi>> ELSE d
      range == IF param[1] <= param[2] THEN param[1]..param[2]
               ELSE {n \in Int : n >= param[1] \/ n <= param[2]}
  IN  [vectors |-> [1..sz -> range], distr |-> param]

(***************************************************************************)
(* The state machine.                                                      *)
(***************************************************************************)
\* What a call was given and gave back: kind says which field carries the
\* result; arg and arg_inf carry the T or INF argument of a constructor or
\* of an assignment, arg_numbers the vector the benchmark ran on.
Blank ==
  [kind |-> "void", err |-> NoError, ub |-> FALSE, trap |-> FALSE,
   ext |-> Extended_default, ext2 |-> Extended_default,
   bool |-> FALSE, num |-> 0, num2 |-> 0, inf |-> INF_NEG, text |-> "",
   arg |-> 0, arg_inf |-> INF_NEG, arg_type |-> int16_t, arg_text |-> "",
   arg_numbers |-> <<>>, fail |-> FALSE]

Thrown(msg) == [Blank EXCEPT !.kind = "thrown", !.err = msg]
RetExt(x) == [Blank EXCEPT !.kind = "Extended", !.ext = x]
RetBool(x) == [Blank EXCEPT !.kind = "bool", !.bool = x]
RetNum(x) == [Blank EXCEPT !.kind = "T", !.num = x]
RetInf(x) == [Blank EXCEPT !.kind = "INF", !.inf = x]
RetText(x) == [Blank EXCEPT !.kind = "text", !.text = x]

\* No call is pending: the last result, if any, has been consumed.
Idle == "idle"

Init ==
  /\ a \in ExtInputs
  /\ b \in ExtInputs
  /\ pre = a
  /\ op = Idle
  /\ res = Blank
  /\ steps = 0
  /\ distr = NoDistr
  /\ deferred = FALSE

\* Whether the call name, which gave back r, has stored in the receiver a
\* payload that does not come from the payload it had: the constructors and
\* the assignments, inf *= 0 and Finite /= inf (which store zero), and an
\* extraction that has written a number.
Overwritten(name, r) ==
  \/ name \in {"Extended()", "Extended(T)", "Extended(INF)",
               "Extended(Extended)", "=T", "=Extended"}
  \/ name = "*=" /\ ~finite(a) /\ finite(b) /\ b.m_value = zero
  \/ name = "/=" /\ finite(a) /\ ~finite(b)
  \/ name = "is>>" /\ PrimFromText(r.arg_text).written

\* Whether the receiver's payload, after the call name that gave back r, is
\* the remainder of a division by zero that the build has not carried out:
\* x %= 0 has returned, or the payload was such before and has not been
\* overwritten.
Deferred(name, r) ==
  IF name = "%=" /\ r.ub /\ ~r.trap THEN TRUE
  ELSE IF Overwritten(name, r) THEN FALSE
  ELSE deferred

\* One call: the receiver becomes now, the call gave back r, and the static
\* distribution is left as d.
CallWith(name, now, r, d) ==
  /\ op = Idle
  /\ steps < MaxSteps
  /\ a' = now
  /\ b' = b
  /\ pre' = a
  /\ op' = name
  /\ res' = r
  /\ steps' = steps + 1
  /\ distr' = d
  /\ deferred' = Deferred(name, r)

\* A call of a member or friend of Extended.
Call(name, now, r) == CallWith(name, now, r, distr)

\* The statement that made the call ends: its result is dropped and the
\* objects stay as the call left them.  After an undefined shift the
\* program goes on with whatever payload the shift left; nothing runs after
\* a call that ended the process.
Discard ==
  /\ op # Idle
  /\ ~res.trap
  /\ pre' = a
  /\ op' = Idle
  /\ res' = Blank
  /\ UNCHANGED <<a, b, steps, distr, deferred>>

\* The process ends on the signal.
Signal == [Blank EXCEPT !.kind = "signal", !.ub = TRUE, !.trap = TRUE]

\* x % 0 or x %= 0 has returned because the build moved the division to
\* where its result is read: the statement goes on, or a later statement
\* comes, to read the payload of the returned object or of the receiver,
\* the division is carried out there, and the process ends on SIGFPE.
DeferredTrap ==
  /\ ~res.trap
  /\ (deferred \/ (op = "%" /\ res.ub))
  /\ op' = "SIGFPE"
  /\ res' = Signal
  /\ pre' = a
  /\ UNCHANGED <<a, b, steps, distr, deferred>>

\* Outcome r of a compound assignment or of a binary operator.  Where the
\* behaviour is undefined and the call returns, the payload is whatever the
\* build produces: the payload of r (for a shift, the shift by the count
\* modulo IntBits, which the processor computes; for a division the compiler
\* removed, the payload the receiver had), or any of the inputs, which a
\* build that folds the undefined expression may leave.  A call that traps
\* returns nothing and leaves the receiver as it was; where a trap is
\* possible, so is the return,
\* and after the return the trap where the payload is read (DeferredTrap).
Outcomes(r) ==
  IF r.ub
  THEN {[r EXCEPT !.trap = FALSE, !.self.m_value = v] :
          v \in Inputs \cup {r.self.m_value}}
       \cup (IF r.trap THEN {r} ELSE {})
  ELSE {r}

Result(r) ==
  IF r.err # NoError THEN Thrown(r.err)
  ELSE IF r.trap THEN Signal
  ELSE [RetExt(r.self) EXCEPT !.ub = r.ub]

\* a F= b with outcome out: the receiver is changed in place and returned.
Compound(name, out) ==
  \E r \in Outcomes(out) : Call(name, r.self, Result(r))

\* a F b with outcome out: the receiver is left alone, the changed copy is
\* returned.
Binary(name, out) ==
  \E r \in Outcomes(out) : Call(name, a, Result(r))

Compare(name, holds) == Call(name, a, RetBool(holds))

IncDec(name, out) == Call(name, out.self, RetExt(out.ret))

ConstructDefault ==
  /\ Call("Extended()", Extended_default, Blank)
ConstructValue ==
  /\ \E v \in Inputs :
     Call("Extended(T)", Extended_value(v), [Blank EXCEPT !.arg = v])
ConstructInf ==
  /\ \E i \in {INF_POS, INF_NEG} :
     Call("Extended(INF)", Extended_inf(i), [Blank EXCEPT !.arg_inf = i])
\* The implicitly declared copy constructor and copy assignment: both
\* members are copied; the assignment returns the receiver.
CopyConstruct ==
  /\ Call("Extended(Extended)", Extended_copy(b), Blank)
CopyAssign ==
  /\ Call("=Extended", assign_copy(a, b), RetExt(assign_copy(a, b)))
AssignValue ==
  /\ \E v \in Inputs :
     Call("=T", assign_value(a, v),
          [RetExt(assign_value(a, v)) EXCEPT !.arg = v])
AssignInf ==
  /\ \E i \in {INF_POS, INF_NEG} :
     Call("=INF", assign_inf(a, i),
          [RetExt(assign_inf(a, i)) EXCEPT !.arg_inf = i])

Finite ==
  /\ Call("finite", a, RetBool(finite(a)))
Value ==
  /\ Call("value", a,
       IF value(a).err # NoError THEN Thrown(value(a).err)
       ELSE RetNum(value(a).ret))
InfiniteType ==
  /\ Call("infinite_type", a,
       IF infinite_type(a).err # NoError THEN Thrown(infinite_type(a).err)
       ELSE RetInf(infinite_type(a).ret))

AsType ==
  /\ \E S \in STypes :
       Call("as_type", a, [RetExt(as_type(a, S)) EXCEPT !.arg_type = S])

UnaryPlus ==
  /\ Call("+x", a, RetExt(unary_plus(a)))

UnaryMinus ==
  /\ Call("-x", a, RetExt(unary_minus(a)))

Bool ==
  /\ Call("bool", a, RetBool(to_bool(a)))

Eq ==
  /\ Compare("==", op_eq(a, b))
Ne ==
  /\ Compare("!=", op_ne(a, b))
Lt ==
  /\ Compare("<", op_lt(a, b))
Gt ==
  /\ Compare(">", op_gt(a, b))
Le ==
  /\ Compare("<=", op_le(a, b))
Ge ==
  /\ Compare(">=", op_ge(a, b))

PreIncrement ==
  /\ IncDec("++x", pre_increment(a))
PostIncrement ==
  /\ IncDec("x++", post_increment(a))
PreDecrement ==
  /\ IncDec("--x", pre_decrement(a))
PostDecrement ==
  /\ IncDec("x--", post_decrement(a))

PlusAssign ==
  /\ Compound("+=", plus_assign(a, b))
MinusAssign ==
  /\ Compound("-=", minus_assign(a, b))
TimesAssign ==
  /\ Compound("*=", times_assign(a, b))
DivideAssign ==
  /\ Compound("/=", divide_assign(a, b))
ModuloAssign ==
  /\ Compound("%=", modulo_assign(a, b))
AndAssign ==
  /\ Compound("&=", and_assign(a, b))
OrAssign ==
  /\ Compound("|=", or_assign(a, b))
XorAssign ==
  /\ Compound("^=", xor_assign(a, b))
ShlAssign ==
  /\ Compound("<<=", shl_assign(a, b))
ShrAssign ==
  /\ Compound(">>=", shr_assign(a, b))

BitNot ==
  /\ Call("~", a, Result(bit_not(a)))

Plus ==
  /\ Binary("+", binary_plus(a, b))
Minus ==
  /\ Binary("-", binary_minus(a, b))
Times ==
  /\ Binary("*", binary_times(a, b))
Divide ==
  /\ Binary("/", binary_divide(a, b))
Modulo ==
  /\ Binary("%", binary_modulo(a, b))
And ==
  /\ Binary("&", binary_and(a, b))
Or ==
  /\ Binary("|", binary_or(a, b))
Xor ==
  /\ Binary("^", binary_xor(a, b))
Shl ==
  /\ Binary("<<", binary_shl(a, b))
Shr ==
  /\ Binary(">>", binary_shr(a, b))

\* os << a
StreamInsert ==
  /\ Call("os<<", a, RetText(stream_insert(a)))

\* is >> a on a stream holding s; fail is the state of the stream returned.
StreamExtract ==
  /\ \E s \in Texts :
       LET r == stream_extract(a, s)
       IN  Call("is>>", r.self,
                [Blank EXCEPT !.kind = "istream", !.fail = r.fail,
                              !.arg_text = s])

\* The benchmark of main on a vector that random_numbers may return, made of
\* numbers of the sample.  It reads neither object of the model, and is run
\* where both are as default-constructed.
Operate ==
  /\ steps = 0
  /\ a = Extended_default /\ b = Extended_default
  /\ \E sz \in 0..MaxLen :
       LET drawn == random_numbers(distr, sz, min_val, max_val)
       IN  \E num_sample \in [1..sz -> Sample] :
             /\ num_sample \in drawn.vectors
             /\ LET numbers == [i \in 1..sz |-> Number(int64_t, num_sample[i])]
                     p == operate_prim(int64_t, numbers)
                     e == operate_ext(int64_t, extend(numbers))
                 IN  CallWith("operate", a,
                              IF e.err # NoError THEN Thrown(e.err)
                              ELSE [Blank EXCEPT !.kind = "pair",
                                      !.ext = e.first, !.ext2 = e.second,
                                      !.num = p.first, !.num2 = p.second,
                                      !.arg_numbers = num_sample],
                              drawn.distr)

Next ==
  \/ ConstructDefault \/ ConstructValue \/ ConstructInf
  \/ CopyConstruct \/ CopyAssign
  \/ AssignValue \/ AssignInf
  \/ Finite \/ Value \/ InfiniteType \/ AsType
  \/ UnaryPlus \/ UnaryMinus \/ Bool
  \/ Eq \/ Ne \/ Lt \/ Gt \/ Le \/ Ge
  \/ PreIncrement \/ PostIncrement \/ PreDecrement \/ PostDecrement
  \/ PlusAssign \/ MinusAssign \/ TimesAssign \/ DivideAssign \/ ModuloAssign
  \/ AndAssign \/ OrAssign \/ XorAssign \/ ShlAssign \/ ShrAssign
  \/ BitNot
  \/ Plus \/ Minus \/ Times \/ Divide \/ Modulo
  \/ And \/ Or \/ Xor \/ Shl \/ Shr
  \/ StreamInsert \/ StreamExtract
  \/ Operate
  \/ DeferredTrap
  \/ Discard

Spec == Init /\ [][Next]_vars

(***************************************************************************)
(* Properties.  Each is stated on the record of the last call: op is the   *)
(* operation, pre the receiver before it, b the right-hand operand, a the  *)
(* receiver after it and res what it returned or threw.                    *)
(***************************************************************************)
IsPosInf(x) == x.m_flag = POS_INF_FLAG
IsNegInf(x) == x.m_flag = NEG_INF_FLAG
IsFinite(x) == x.m_flag = FINITE_FLAG

\* The call ended in an infinite_error (the spec's FiniteError).
Failed == res.kind = "thrown" /\ res.err # NoError
\* The call returned an Extended value.
Returned == res.kind = "Extended" /\ res.err = NoError

\* The value the call yields: the receiver for a compound assignment, the
\* returned copy for a binary operator.
Out == res.ext

\* C1: the four additive indeterminate forms, (+inf) + (-inf), (-inf) + (+inf),
\* (+inf) - (+inf) and (-inf) - (-inf), fail with an infinite_error, through
\* += / -= and through the binary + / -.
C1_IndeterminateAdditiveFormsFail ==
  /\ ( /\ op \in {"+=", "+"}
       /\ \/ IsPosInf(pre) /\ IsNegInf(b)
          \/ IsNegInf(pre) /\ IsPosInf(b) ) => Failed
  /\ ( /\ op \in {"-=", "-"}
       /\ \/ IsPosInf(pre) /\ IsPosInf(b)
          \/ IsNegInf(pre) /\ IsNegInf(b) ) => Failed

\* C1 witness: -inf + +inf was evaluated through the binary + and threw.
C1_Witness ==
  op = "+" /\ IsNegInf(pre) /\ IsPosInf(b) /\ res.err = Msg.AddNP

\* The rows of += that the table and the code agree on.
PlusAssignCommonRows ==
  /\ (IsFinite(pre) /\ IsFinite(b)) =>
        /\ Returned
        /\ a = Ext(static_cast_T(pre.m_value + b.m_value), FINITE_FLAG)
  /\ (IsFinite(pre) /\ ~IsFinite(b)) => (Returned /\ a.m_flag = b.m_flag)
  /\ (IsPosInf(pre) /\ (IsFinite(b) \/ IsPosInf(b))) => (Returned /\ a = pre)
  /\ (IsPosInf(pre) /\ IsNegInf(b)) => Failed
  /\ (IsNegInf(pre) /\ (IsFinite(b) \/ IsNegInf(b))) => (Returned /\ a = pre)

\* C2 as stated: L += R follows the table, whose last row has -inf += +inf
\* succeed and leave L unchanged at -inf.
C2_AsStated ==
  op = "+=" =>
    /\ PlusAssignCommonRows
    /\ (IsNegInf(pre) /\ IsPosInf(b)) => (Returned /\ IsNegInf(a))

\* C2 amended: L += R follows the table for every pair of operand states,
\* except that -inf += +inf fails as an indeterminate form (L stays -inf).
C2_PlusAssignTable ==
  op = "+=" =>
    /\ PlusAssignCommonRows
    /\ (IsNegInf(pre) /\ IsPosInf(b)) => (Failed /\ a = pre)

\* C2 witness: a Finite receiver took the state of an infinite operand.
C2_Witness ==
  op = "+=" /\ IsFinite(pre) /\ pre.m_value # 0 /\ IsNegInf(b) /\ IsNegInf(a)

\* The rows of -= that the table and the code agree on.
MinusAssignCommonRows ==
  /\ (IsFinite(pre) /\ IsFinite(b)) =>
        /\ Returned
        /\ a = Ext(static_cast_T(pre.m_value - b.m_value), FINITE_FLAG)
  /\ (IsFinite(pre) /\ ~IsFinite(b)) => (Returned /\ a.m_flag = -b.m_flag)
  /\ (IsPosInf(pre) /\ IsFinite(b)) => (Returned /\ a = pre)
  /\ (IsPosInf(pre) /\ IsNegInf(b)) => (Returned /\ a = pre)
  /\ (IsNegInf(pre) /\ IsFinite(b)) => (Returned /\ a = pre)

\* C3 as stated: +inf -= +inf and -inf -= -inf succeed and leave L unchanged,
\* and -inf -= +inf fails.
C3_AsStated ==
  op = "-=" =>
    /\ MinusAssignCommonRows
    /\ (IsPosInf(pre) /\ IsPosInf(b)) => (Returned /\ a = pre)
    /\ (IsNegInf(pre) /\ IsNegInf(b)) => (Returned /\ a = pre)
    /\ (IsNegInf(pre) /\ IsPosInf(b)) => Failed

\* C3 amended: L -= R gives the difference of payloads for Finite - Finite,
\* makes a Finite L the opposite of an infinite R, leaves +inf unchanged for
\* R Finite or -inf, leaves -inf unchanged for R Finite or +inf, and fails for
\* +inf -= +inf and for -inf -= -inf.
C3_MinusAssignTable ==
  op = "-=" =>
    /\ MinusAssignCommonRows
    /\ (IsPosInf(pre) /\ IsPosInf(b)) => (Failed /\ a = pre)
    /\ (IsNegInf(pre) /\ IsNegInf(b)) => (Failed /\ a = pre)
    /\ (IsNegInf(pre) /\ IsPosInf(b)) => (Returned /\ a = pre)

\* C3 witness: a Finite receiver became the opposite of an infinite operand.
C3_Witness ==
  op = "-=" /\ IsFinite(pre) /\ pre.m_value # 0 /\ IsPosInf(b) /\ IsNegInf(a)

\* The sign of an operand: of the payload when Finite, of the infinity
\* otherwise.
Sgn(x) ==
  IF IsFinite(x)
    THEN (IF x.m_value < 0 THEN -1 ELSE IF x.m_value > 0 THEN 1 ELSE 0)
  ELSE x.m_flag

\* C4: multiplication never fails; Finite x Finite multiplies the payloads
\* (modulo 2^TBits), Finite zero x Inf and Inf x Finite zero are Finite zero,
\* nonzero Finite x Inf (either order) and Inf x Inf are infinite with the
\* product of the two signs as sign, and a * b == b * a.
C4_Multiplication ==
  op \in {"*=", "*"} =>
    /\ Returned
    /\ (IsFinite(pre) /\ IsFinite(b)) =>
          Out = Ext(static_cast_T(pre.m_value * b.m_value), FINITE_FLAG)
    /\ (IsFinite(pre) # IsFinite(b)) =>
          IF Sgn(pre) = 0 \/ Sgn(b) = 0
            THEN IsFinite(Out) /\ Out.m_value = 0
            ELSE ~IsFinite(Out) /\ Out.m_flag = Sgn(pre) * Sgn(b)
    /\ (~IsFinite(pre) /\ ~IsFinite(b)) =>
          (~IsFinite(Out) /\ Out.m_flag = Sgn(pre) * Sgn(b))
    /\ binary_times(b, pre).err = NoError
    /\ op_eq(Out, binary_times(b, pre).self)

\* C4 witness: -inf times +inf gave -inf.
C4_Witness ==
  op = "*" /\ IsNegInf(pre) /\ IsPosInf(b) /\ Returned /\ IsNegInf(Out)

\* C5: L / R fails exactly when R is Finite zero or both operands are
\* infinite; otherwise Finite / Finite is the primitive (truncated) quotient,
\* Finite / Inf is Finite zero, and Inf / nonzero Finite is infinite with the
\* product of the two signs as sign.
C5_Division ==
  op \in {"/=", "/"} =>
    LET bad == \/ IsFinite(b) /\ b.m_value = 0
               \/ ~IsFinite(pre) /\ ~IsFinite(b)
    IN  /\ Failed <=> bad
        /\ ~bad =>
             /\ Returned
             /\ (IsFinite(pre) /\ IsFinite(b)) =>
                   Out = Ext(static_cast_T(PrimDiv(pre.m_value, b.m_value)),
                             FINITE_FLAG)
             /\ (IsFinite(pre) /\ ~IsFinite(b)) =>
                   (IsFinite(Out) /\ Out.m_value = 0)
             /\ (~IsFinite(pre) /\ IsFinite(b)) =>
                   (~IsFinite(Out) /\ Out.m_flag = Sgn(pre) * Sgn(b))

\* C5 witness: a nonzero Finite value divided by -inf gave Finite zero.
C5_Witness ==
  /\ op = "/" /\ IsFinite(pre) /\ pre.m_value = TMin /\ IsNegInf(b)
  /\ Returned /\ Out = Ext(0, FINITE_FLAG)

\* The exact sum of a vector of numbers.
RECURSIVE SumOf(_)
SumOf(numbers) ==
  IF numbers = <<>> THEN 0 ELSE Head(numbers) + SumOf(Tail(numbers))

\* C6: for Finite a and b, a + b, a - b and a * b are Finite with the payload
\* the primitive operator of T gives (modulo 2^TBits), a / b is the primitive
\* quotient unless b is zero, where it fails; and summing or multiplying a
\* vector of Finite values gives the Finite value of the primitive fold (for
\* the sum, the exact sum of the numbers as a value of the payload type).
C6_FiniteMatchesPrimitive ==
  /\ (IsFinite(pre) /\ IsFinite(b)) =>
        /\ op \in {"+=", "+"} =>
              /\ Returned
              /\ Out = Ext(static_cast_T(pre.m_value + b.m_value), FINITE_FLAG)
        /\ op \in {"-=", "-"} =>
              /\ Returned
              /\ Out = Ext(static_cast_T(pre.m_value - b.m_value), FINITE_FLAG)
        /\ op \in {"*=", "*"} =>
              /\ Returned
              /\ Out = Ext(static_cast_T(pre.m_value * b.m_value), FINITE_FLAG)
        /\ op \in {"/=", "/"} =>
              IF b.m_value = 0 THEN Failed
              ELSE /\ Returned
                   /\ Out = Ext(static_cast_T(PrimDiv(pre.m_value, b.m_value)),
                                FINITE_FLAG)
  /\ op = "operate" =>
        /\ res.kind = "pair"
        /\ res.ext = Ext(res.num, FINITE_FLAG)
        /\ res.ext2 = Ext(res.num2, FINITE_FLAG)
        /\ res.num = ToLimbs(SumOf(res.arg_numbers), Limbs)

\* C6 witness: the benchmark ran on seven times max_val, whose product
\* 10^21 is more than int64_t holds; the Extended folds gave the sum 7000
\* and the product 10^21 modulo 2^64 = 3875820019684212736, as the primitive
\* folds did.
C6_Witness ==
  /\ op = "operate" /\ res.kind = "pair"
  /\ res.arg_numbers = [i \in 1..7 |-> max_val]
  /\ res.num = <<88, 27, 0, 0, 0, 0, 0, 0>>
  /\ res.num2 = <<0, 0, 160, 222, 197, 173, 201, 53>>
  /\ res.ext = Ext(res.num, FINITE_FLAG) /\ res.ext2 = Ext(res.num2, FINITE_FLAG)

\* The place of a value on the extended line: -inf below and +inf above
\* every payload of T.
Rank(x) ==
  IF IsNegInf(x) THEN TMin - 1 ELSE IF IsPosInf(x) THEN TMax + 1 ELSE x.m_value

CompareOps == {"==", "!=", "<", ">", "<=", ">="}

\* The six comparisons of x with y.
CmpAll(x, y) ==
  <<op_eq(x, y), op_ne(x, y), op_lt(x, y), op_gt(x, y), op_le(x, y), op_ge(x, y)>>

\* x with another payload under the same flag.
WithPayload(x, v) == [x EXCEPT !.m_value = v]

\* C7: the comparison operators are the order -inf < every Finite (by
\* payload) < +inf: each operator answers as the order does, exactly one of
\* a < b, a == b, a > b holds, <= is transitive, and with a non-finite operand
\* the answers do not depend on that operand's payload.
C7_TotalOrder ==
  op \in CompareOps =>
    /\ res.kind = "bool"
    /\ op = "==" => (res.bool <=> Rank(pre) = Rank(b))
    /\ op = "!=" => (res.bool <=> Rank(pre) # Rank(b))
    /\ op = "<"  => (res.bool <=> Rank(pre) < Rank(b))
    /\ op = ">"  => (res.bool <=> Rank(pre) > Rank(b))
    /\ op = "<=" => (res.bool <=> Rank(pre) <= Rank(b))
    /\ op = ">=" => (res.bool <=> Rank(pre) >= Rank(b))
    /\ Cardinality({i \in 1..3 :
                      <<op_lt(pre, b), op_eq(pre, b), op_gt(pre, b)>>[i]}) = 1
    /\ \A c \in ExtInputs :
          (op_le(pre, b) /\ op_le(b, c)) => op_le(pre, c)
    /\ \A v \in Inputs :
          /\ ~IsFinite(pre) => CmpAll(WithPayload(pre, v), b) = CmpAll(pre, b)
          /\ ~IsFinite(b) => CmpAll(pre, WithPayload(b, v)) = CmpAll(pre, b)

\* C7 witness: -inf was compared with the least Finite value and is below it.
C7_Witness ==
  op = "<" /\ IsNegInf(pre) /\ IsFinite(b) /\ b.m_value = TMin /\ res.bool

\* C8: a default-constructed value is Finite zero, a value constructed from v
\* is Finite with payload v, a value constructed from an infinity tag is
\* infinite with that sign; value() returns the payload iff the state is
\* Finite and fails otherwise; infinite_type() returns the sign iff the state
\* is infinite and fails otherwise.
C8_ConstructorsAndAccessors ==
  /\ op = "Extended()" => (IsFinite(a) /\ a.m_value = 0)
  /\ op = "Extended(T)" => (IsFinite(a) /\ a.m_value = res.arg)
  /\ op = "Extended(INF)" =>
        IF res.arg_inf = INF_POS THEN IsPosInf(a) ELSE IsNegInf(a)
  /\ op = "value" =>
        IF IsFinite(pre)
          THEN res.kind = "T" /\ res.err = NoError /\ res.num = pre.m_value
          ELSE Failed
  /\ op = "infinite_type" =>
        IF ~IsFinite(pre)
          THEN /\ res.kind = "INF" /\ res.err = NoError
               /\ res.inf = (IF IsPosInf(pre) THEN INF_POS ELSE INF_NEG)
          ELSE Failed

\* C8 witness: value() was called on +inf, whose payload is not zero, and
\* threw.
C8_Witness ==
  op = "value" /\ IsPosInf(pre) /\ pre.m_value # 0 /\ res.err = Msg.Value

FiniteOnlyOps ==
  {"%=", "%", "&=", "&", "|=", "|", "^=", "^", "<<=", "<<", ">>=", ">>"}

\* Whether the primitive operator of T is defined on the right operand y.
PrimDefined(o, y) ==
  CASE o \in {"%=", "%"} -> y # 0
    [] o \in {"<<=", "<<", ">>=", ">>"} -> ShiftDefined(y)
    [] OTHER -> TRUE

\* The primitive operator of T behind the Extended operator o.
PrimOf(o, x, y) ==
  CASE o \in {"%=", "%"} -> PrimMod(x, y)
    [] o \in {"&=", "&"} -> PrimAnd(x, y)
    [] o \in {"|=", "|"} -> PrimOr(x, y)
    [] o \in {"^=", "^"} -> PrimXor(x, y)
    [] o \in {"<<=", "<<"} -> PrimShl(x, y)
    [] o \in {">>=", ">>"} -> PrimShr(x, y)

\* C9: modulo and every bitwise operator fail with an infinite_error whenever
\* an operand is not Finite; with Finite operands the call returns a Finite
\* value whose payload is the one the primitive operator of T gives for the
\* two payloads (for the one payload, in the case of ~).
C9_FiniteOnlyOperators ==
  /\ op \in FiniteOnlyOps =>
        IF IsFinite(pre) /\ IsFinite(b)
          THEN /\ Returned
               /\ IsFinite(Out)
               /\ PrimDefined(op, b.m_value)
               /\ Out.m_value = static_cast_T(PrimOf(op, pre.m_value, b.m_value))
          ELSE Failed
  /\ op = "~" =>
        IF IsFinite(pre)
          THEN Returned /\ Out = Ext(static_cast_T(PrimNot(pre.m_value)), FINITE_FLAG)
          ELSE Failed

\* The same where the primitive operator of T has a result: a divisor other
\* than zero for %, a shift count in 0..IntBits-1.  Elsewhere no
\* infinite_error is thrown.
FiniteOnlyWherePrimitiveDefined ==
  /\ op \in FiniteOnlyOps =>
        /\ (~IsFinite(pre) \/ ~IsFinite(b)) => (Failed /\ a = pre)
        /\ (IsFinite(pre) /\ IsFinite(b)) => ~Failed
        /\ (IsFinite(pre) /\ IsFinite(b) /\ PrimDefined(op, b.m_value)) =>
              /\ Returned
              /\ Out = Ext(static_cast_T(PrimOf(op, pre.m_value, b.m_value)),
                           FINITE_FLAG)
  /\ op = "~" =>
        IF IsFinite(pre)
          THEN Returned /\ Out = Ext(static_cast_T(PrimNot(pre.m_value)), FINITE_FLAG)
          ELSE Failed

\* A Finite value modulo Finite zero has ended the process on a signal.
ModuloByZeroTraps ==
  /\ op = "%=" /\ IsFinite(pre) /\ IsFinite(b) /\ b.m_value = 0
  /\ res.kind = "signal"

IncDecOps == {"++x", "x++", "--x", "x--"}

\* C10: increment and decrement never change the flag; on a Finite value the
\* payload moves by +1 / -1 (in T, modulo 2^TBits), the postfix forms return
\* a value equal to the operand before the change and the prefix forms the
\* value after it; on an infinite value every comparison with any other
\* value and the rendered text are the same after the call as before.
C10_IncrementDecrement ==
  op \in IncDecOps =>
    /\ Returned
    /\ a.m_flag = pre.m_flag
    /\ (IsFinite(pre) /\ op \in {"++x", "x++"}) =>
          a.m_value = static_cast_T(pre.m_value + 1)
    /\ (IsFinite(pre) /\ op \in {"--x", "x--"}) =>
          a.m_value = static_cast_T(pre.m_value - 1)
    /\ op \in {"x++", "x--"} => op_eq(Out, pre)
    /\ op \in {"++x", "--x"} => op_eq(Out, a)
    /\ ~IsFinite(pre) =>
          /\ \A c \in ExtInputs :
                /\ CmpAll(a, c) = CmpAll(pre, c)
                /\ CmpAll(c, a) = CmpAll(c, pre)
          /\ stream_insert(a) = stream_insert(pre)

\* C10 witness: +inf was incremented; its hidden payload moved and it is
\* still +inf.
C10_Witness ==
  op = "x++" /\ IsPosInf(pre) /\ IsPosInf(a) /\ a.m_value # pre.m_value

(***************************************************************************)
(* Observations.  What a caller can tell of a value is its flag and, when  *)
(* the value is finite, its payload; Obs blanks the payload of an infinite *)
(* value.  Run(name, x, y, r) is what the operation called name does with  *)
(* receiver x, right operand y and the arguments recorded in r: the set    *)
(* of pairs (receiver afterwards, result).                                 *)
(***************************************************************************)
Obs(x) == IF finite(x) THEN x ELSE WithPayload(x, 0)

ObsRes(r) == [r EXCEPT !.ext = Obs(@), !.ext2 = Obs(@)]

ObsOut(o) == [now |-> Obs(o.now), res |-> ObsRes(o.res)]

Did(now, r) == {[now |-> now, res |-> r]}

DidCompound(out) == {[now |-> o.self, res |-> Result(o)] : o \in Outcomes(out)}

DidBinary(x, out) == {[now |-> x, res |-> Result(o)] : o \in Outcomes(out)}

DidIncDec(out) == Did(out.self, RetExt(out.ret))

Run(name, x, y, r) ==
  CASE name = "Extended()" -> Did(Extended_default, Blank)
    [] name = "Extended(T)" ->
         Did(Extended_value(r.arg), [Blank EXCEPT !.arg = r.arg])
    [] name = "Extended(INF)" ->
         Did(Extended_inf(r.arg_inf), [Blank EXCEPT !.arg_inf = r.arg_inf])
    [] name = "Extended(Extended)" -> Did(Extended_copy(y), Blank)
    [] name = "=Extended" -> Did(assign_copy(x, y), RetExt(assign_copy(x, y)))
    [] name = "=T" ->
         Did(assign_value(x, r.arg),
             [RetExt(assign_value(x, r.arg)) EXCEPT !.arg = r.arg])
    [] name = "=INF" ->
         Did(assign_inf(x, r.arg_inf),
             [RetExt(assign_inf(x, r.arg_inf)) EXCEPT !.arg_inf = r.arg_inf])
    [] name = "finite" -> Did(x, RetBool(finite(x)))
    [] name = "value" ->
         Did(x, IF value(x).err # NoError THEN Thrown(value(x).err)
                ELSE RetNum(value(x).ret))
    [] name = "infinite_type" ->
         Did(x, IF infinite_type(x).err # NoError
                THEN Thrown(infinite_type(x).err)
                ELSE RetInf(infinite_type(x).ret))
    [] name = "as_type" ->
         Did(x, [RetExt(as_type(x, r.arg_type))
                   EXCEPT !.arg_type = r.arg_type])
    [] name = "+x" -> Did(x, RetExt(unary_plus(x)))
    [] name = "-x" -> Did(x, RetExt(unary_minus(x)))
    [] name = "bool" -> Did(x, RetBool(to_bool(x)))
    [] name = "==" -> Did(x, RetBool(op_eq(x, y)))
    [] name = "!=" -> Did(x, RetBool(op_ne(x, y)))
    [] name = "<" -> Did(x, RetBool(op_lt(x, y)))
    [] name = ">" -> Did(x, RetBool(op_gt(x, y)))
    [] name = "<=" -> Did(x, RetBool(op_le(x, y)))
    [] name = ">=" -> Did(x, RetBool(op_ge(x, y)))
    [] name = "++x" -> DidIncDec(pre_increment(x))
    [] name = "x++" -> DidIncDec(post_increment(x))
    [] name = "--x" -> DidIncDec(pre_decrement(x))
    [] name = "x--" -> DidIncDec(post_decrement(x))
    [] name = "+=" -> DidCompound(plus_assign(x, y))
    [] name = "-=" -> DidCompound(minus_assign(x, y))
    [] name = "*=" -> DidCompound(times_assign(x, y))
    [] name = "/=" -> DidCompound(divide_assign(x, y))
    [] name = "%=" -> DidCompound(modulo_assign(x, y))
    [] name = "&=" -> DidCompound(and_assign(x, y))
    [] name = "|=" -> DidCompound(or_assign(x, y))
    [] name = "^=" -> DidCompound(xor_assign(x, y))
    [] name = "<<=" -> DidCompound(shl_assign(x, y))
    [] name = ">>=" -> DidCompound(shr_assign(x, y))
    [] name = "~" -> Did(x, Result(bit_not(x)))
    [] name = "+" -> DidBinary(x, binary_plus(x, y))
    [] name = "-" -> DidBinary(x, binary_minus(x, y))
    [] name = "*" -> DidBinary(x, binary_times(x, y))
    [] name = "/" -> DidBinary(x, binary_divide(x, y))
    [] name = "%" -> DidBinary(x, binary_modulo(x, y))
    [] name = "&" -> DidBinary(x, binary_and(x, y))
    [] name = "|" -> DidBinary(x, binary_or(x, y))
    [] name = "^" -> DidBinary(x, binary_xor(x, y))
    [] name = "<<" -> DidBinary(x, binary_shl(x, y))
    [] name = ">>" -> DidBinary(x, binary_shr(x, y))
    [] name = "os<<" -> Did(x, RetText(stream_insert(x)))
    [] name = "is>>" ->
         Did(stream_extract(x, r.arg_text).self,
             [Blank EXCEPT !.kind = "istream",
                           !.fail = stream_extract(x, r.arg_text).fail,
                           !.arg_text = r.arg_text])
    [] OTHER -> {}

\* The operations of Extended, as the calls are named.
PublicOps ==
  {"Extended()", "Extended(T)", "Extended(INF)", "Extended(Extended)",
   "=Extended", "=T", "=INF", "finite",
   "value", "infinite_type", "as_type", "+x", "-x", "bool"} \cup CompareOps
  \cup IncDecOps \cup
  {"+=", "-=", "*=", "/=", "%=", "&=", "|=", "^=", "<<=", ">>=", "~",
   "+", "-", "*", "/", "%", "&", "|", "^", "<<", ">>", "os<<", "is>>"}

\* The values that differ from x in nothing but a hidden payload.
Twins(x) == IF finite(x) THEN {x} ELSE {WithPayload(x, v) : v \in Inputs}

\* The call just made gives the same observations when the receiver and the
\* right operand are replaced by twins of theirs; the call recorded in the
\* state is one of the outcomes Run gives for it.
SameForTwins ==
  /\ [now |-> a, res |-> res] \in Run(op, pre, b, res)
  /\ \A x \in Twins(pre), y \in Twins(b) :
       {ObsOut(o) : o \in Run(op, x, y, res)}
         = {ObsOut(o) : o \in Run(op, pre, b, res)}

\* C11: the payload of an infinite value is never observable: two instances
\* in the same infinite state with different hidden payloads give the same
\* results and the same errors under every operation, and are left in
\* states that again differ in hidden payloads only, so that the same holds
\* of every sequence of operations that follows.
C11_HiddenPayloadNeverObservable ==
  op \in PublicOps => SameForTwins

\* The same with the extraction from a stream left out.
HiddenPayloadUnobservedBarExtraction ==
  op \in PublicOps \ {"is>>"} => SameForTwins

\* An extraction that stored nothing has made a hidden payload the payload
\* of a finite value.
ExtractionRevealsPayload ==
  /\ op = "is>>" /\ ~finite(pre) /\ res.fail
  /\ finite(a) /\ a.m_value = pre.m_value /\ a.m_value # 0

\* What C12 says of one extraction: the receiver is finite afterwards, it is
\* the same whatever the receiver was before, it carries the number the
\* extraction stored, and the rendering of a T value reads back as that value.
ParsedAsStated ==
  /\ finite(a)
  /\ \A x \in ExtInputs : stream_extract(x, res.arg_text).self = a
  /\ PrimFromText(res.arg_text).written
       => a.m_value = PrimFromText(res.arg_text).ret
  /\ \A v \in Inputs :
       res.arg_text = PrimToText(v) => op_eq(a, Extended_value(v))

\* C12: parsing always produces a Finite value: after reading text into an
\* instance in any prior state, the instance is Finite and equal to the
\* Finite value of the parsed primitive, with the prior state and payload
\* discarded; reading the rendering of a Finite value gives an equal value.
C12_ParsingAlwaysYieldsParsedValue ==
  op = "is>>" => ParsedAsStated

\* The same for the extractions that stored a number.
ParsingOfStoredNumber ==
  op = "is>>" /\ PrimFromText(res.arg_text).written => ParsedAsStated

\* The rendering of the least T value has been read into an infinite value.
RenderingReadBack ==
  /\ op = "is>>" /\ ~finite(pre) /\ res.arg_text = "-32768"
  /\ a = Extended_value(TMin) /\ ~res.fail

\* The integers the type S holds; a signed S as wide as int or wider holds
\* every number met here.
Fits(S, n) ==
  IF S.signed
  THEN S.bits >= IntBits \/ (n >= -(2^(S.bits - 1)) /\ n < 2^(S.bits - 1))
  ELSE n >= 0 /\ n < 2^S.bits

\* m is the result of casting n to S: n itself when S holds it, otherwise
\* the value S holds that is congruent to n modulo 2^bits.
IsCastOf(S, n, m) ==
  /\ Fits(S, m)
  /\ Fits(S, n) => m = n
  /\ S.bits < IntBits => (m - n) % (2^S.bits) = 0

\* C13: as_type<S>() preserves the state and casts the payload: +Inf gives
\* +Inf, -Inf gives -Inf, Finite v gives Finite (v cast to S); the operand is
\* left alone; converting to the same type gives an equal value, and
\* converting a Finite value to a type that holds it and back gives a value
\* equal to the original.
C13_TypeConversion ==
  op = "as_type" =>
    /\ Returned /\ a = pre
    /\ Out.m_flag = pre.m_flag
    /\ IsFinite(pre) => IsCastOf(res.arg_type, pre.m_value, Out.m_value)
    /\ res.arg_type = int16_t => op_eq(Out, pre)
    /\ (IsFinite(pre) => Fits(res.arg_type, pre.m_value))
         => op_eq(as_type(Out, int16_t), pre)

C13_Witness ==
  /\ op = "as_type" /\ res.arg_type = int8_t
  /\ pre = Extended_value(TMax) /\ Out = Extended_value(-1)

\* C14: unary minus never fails: it maps Finite v to Finite -v (in T), +Inf
\* to -Inf and -Inf to +Inf; -(-a) == a for every a, and a == -b exactly
\* when -a == b; unary plus gives a value equal to its operand; neither
\* changes the operand.
C14_UnaryMinusAndPlus ==
  /\ op = "-x" =>
       /\ Returned /\ a = pre
       /\ IsFinite(pre) =>
            IsFinite(Out) /\ IsCastOf(int16_t, -pre.m_value, Out.m_value)
       /\ IsPosInf(pre) => IsNegInf(Out)
       /\ IsNegInf(pre) => IsPosInf(Out)
       /\ op_eq(unary_minus(Out), pre)
       /\ op_eq(pre, unary_minus(b)) <=> op_eq(Out, b)
  /\ op = "+x" => Returned /\ a = pre /\ op_eq(Out, pre)

C14_Witness ==
  /\ op = "-x" /\ IsPosInf(pre) /\ pre.m_value = TMax
  /\ IsNegInf(Out) /\ a = pre /\ IsFinite(b)

\* C15: rendering gives the primitive's text of the payload for a Finite
\* value, and exactly "+inf" for +Inf and "-inf" for -Inf, whatever
\* operations produced the value; the decimal text of a payload is the one
\* that reads back as that payload.
C15_Rendering ==
  op = "os<<" =>
    /\ res.kind = "text" /\ res.err = NoError /\ a = pre
    /\ IsFinite(pre) =>
         /\ res.text = PrimToText(pre.m_value)
         /\ PrimFromText(res.text)
              = [written |-> TRUE, ret |-> pre.m_value, fail |-> FALSE]
         /\ pre.m_value = TMin => res.text = "-32768"
         /\ pre.m_value = 0 => res.text = "0"
    /\ IsPosInf(pre) => res.text = "+inf"
    /\ IsNegInf(pre) => res.text = "-inf"

\* -Inf produced by an earlier call, its hidden payload not 0, is rendered.
C15_Witness ==
  /\ op = "os<<" /\ steps = MaxSteps
  /\ IsNegInf(pre) /\ pre.m_value # 0 /\ res.text = "-inf"

CompoundOps == {"+=", "-=", "*=", "/=", "%=", "&=", "|=", "^=", "<<=", ">>="}

BinaryOps == {"+", "-", "*", "/", "%", "&", "|", "^", "<<", ">>"}

\* The const members and friends of Extended other than the binary forms.
AccessorOps ==
  {"finite", "value", "infinite_type", "as_type", "bool", "+x", "-x", "~",
   "os<<"} \cup CompareOps

\* C16: failure atomicity: when a compound assignment throws, the receiver
\* keeps its flag and its payload and the right operand is unchanged; the
\* binary forms and the accessors change neither operand, whether they
\* return or throw.
C16_FailureAtomicity ==
  [][/\ (op' \in CompoundOps /\ res'.kind = "thrown") => (a' = a /\ b' = b)
     /\ op' \in BinaryOps \cup AccessorOps => (a' = a /\ b' = b)]_vars

\* A shift of a finite receiver by an infinite count has thrown.
C16_Witness ==
  /\ op = "<<=" /\ Failed /\ res.err = Msg.Shl
  /\ IsFinite(pre) /\ pre.m_value = TMin /\ IsPosInf(b) /\ a = pre

\* C17: the flag of every instance is always FINITE_FLAG, POS_INF_FLAG or
\* NEG_INF_FLAG, for receivers, operands and returned values alike, so the
\* "Internal error: invalid infinite flag" branches are never taken.
C17_FlagInvariant ==
  /\ a.m_flag \in Flags /\ b.m_flag \in Flags /\ pre.m_flag \in Flags
  /\ res.ext.m_flag \in Flags /\ res.ext2.m_flag \in Flags
  /\ res.err # Msg.Internal

\* A second call has flipped the flag of an infinite receiver.
C17_Witness ==
  /\ op = "*=" /\ steps = MaxSteps /\ res.err = NoError
  /\ IsNegInf(pre) /\ IsFinite(b) /\ b.m_value < 0 /\ IsPosInf(a)
====
